---- MODULE Spec2Model ----
(***************************************************************************)
(* Model of tut.py: the reprojection of a second FITS image (im2) onto the *)
(* pixel grid of a first one (im1).                                        *)
(*                                                                         *)
(* The script is straight-line code; every statement of the pipeline is    *)
(* one action and pc names the statement that runs next.  A 2-D numpy      *)
(* array is a record [shape |-> <<height, width>>, data |-> f] where f is  *)
(* a function on the 0-based positions <<row, col>>.                       *)
(*                                                                         *)
(* Floating point pixel coordinates are kept in half pixels (the value h   *)
(* stands for h/2), which is enough to tell the ties of np.rint from the   *)
(* other cases.  Sky coordinates are kept in the same unit.  Image samples *)
(* are taken from a small palette that contains 0 and NaN.  Both rasters   *)
(* hold floating point samples of one dtype, so the assignment of line 302 *)
(* copies samples unchanged.                                               *)
(*                                                                         *)
(* Lines 133-188 (radius_array and the first boolean_array) only read      *)
(* im1[0].data, xarray and yarray and print; they are left out, as are     *)
(* pause() and the print statements, which only talk to the terminal.      *)
(***************************************************************************)
EXTENDS Integers, Sequences, FiniteSets, TLC

VARIABLES pc, im1, w1, im2, w2, xarray, yarray, ra_array, dec_array,
          newxarray, newyarray, newdata, boolean_array, fault, outfile

vars == <<pc, im1, w1, im2, w2, xarray, yarray, ra_array, dec_array,
          newxarray, newyarray, newdata, boolean_array, fault, outfile>>

(* ------------------------------ bounds --------------------------------- *)

\* largest height and width of an image file
MaxDim == 2

\* largest offset (in half pixels) of the reference pixel of im2's WCS
MaxShift == 1

(* ------------------------------ values --------------------------------- *)

\* np.nan as an image sample (a value outside the real samples)
nan == -1

\* the extreme values of dtype 'int' (comparisons only; no arithmetic)
IntMax == 2147483647

IntMin == -IntMax - 1

\* a name that is not bound yet
Unset == [shape |-> <<-1, -1>>, data |-> [p \in {} |-> 0]]

\* the positions of an array of the given shape
Pos(shape) == (0 .. shape[1] - 1) \X (0 .. shape[2] - 1)

\* the samples an image file may hold
Palette == <<0, 5, 7, nan>>

\* the data arrays of the image files of a given shape: one flat image and
\* four images that run through the palette
FileData(shape) ==
    { [shape |-> shape, data |-> [p \in Pos(shape) |-> 5]] } \cup
    { [shape |-> shape,
       data |-> [p \in Pos(shape) |->
                   Palette[((p[1] * shape[2] + p[2] + k) % 4) + 1]]] :
      k \in 0 .. 3 }

\* a floating point coordinate: finite (h half pixels), NaN or an infinity
Fin(h) == [k |-> "fin", h |-> h]

NonFinite == { [k |-> "nan", h |-> 0], [k |-> "+inf", h |-> 0],
               [k |-> "-inf", h |-> 0] }

(* ------------------------------ numpy ---------------------------------- *)

\* mutant of Arange: np.arange(n + 1)
ArangeInclusive(n) == [i \in 1 .. n + 1 |-> i - 1]

\* np.arange(n): the sequence 0, ..., n-1 (empty when n <= 0)
Arange(n) == [i \in 1 .. n |-> i - 1]

\* np.meshgrid(a, b) with the default indexing 'xy': two arrays of shape
\* (len(b), len(a)); the first repeats a along every row, the second
\* repeats b along every column
\* mutant of Meshgrid: indexing 'ij', shape (len(a), len(b))
MeshgridIJ(a, b) ==
    LET shape == <<Len(a), Len(b)>>
    IN  << [shape |-> shape, data |-> [p \in Pos(shape) |-> a[p[1] + 1]]],
           [shape |-> shape, data |-> [p \in Pos(shape) |-> b[p[2] + 1]]] >>

\* mutant of Meshgrid: the two results in the other order
MeshgridYX(a, b) ==
    LET shape == <<Len(b), Len(a)>>
    IN  << [shape |-> shape, data |-> [p \in Pos(shape) |-> b[p[1] + 1]]],
           [shape |-> shape, data |-> [p \in Pos(shape) |-> a[p[2] + 1]]] >>

Meshgrid(a, b) ==
    LET shape == <<Len(b), Len(a)>>
    IN  << [shape |-> shape, data |-> [p \in Pos(shape) |-> a[p[2] + 1]]],
           [shape |-> shape, data |-> [p \in Pos(shape) |-> b[p[1] + 1]]] >>

\* np.rint of h/2: round to the nearest integer, ties to the even one
Rint(h) ==
    IF h % 2 = 0 THEN h \div 2
    ELSE LET lo == (h - 1) \div 2
         IN  IF lo % 2 = 0 THEN lo ELSE lo + 1

\* the C cast of a double to the integer dtype.  The cast of NaN or of an
\* infinity is undefined; the platforms in use give the "integer
\* indefinite" value (x86) or saturate with NaN -> 0 (aarch64)
Platforms == {"x86", "aarch64"}

CastInt(plat, v) ==
    CASE v.k = "fin"  -> Rint(v.h)
      [] v.k = "-inf" -> IntMin
      [] v.k = "+inf" -> IF plat = "x86" THEN IntMin ELSE IntMax
      [] v.k = "nan"  -> IF plat = "x86" THEN IntMin ELSE 0

\* np.array(np.rint(a), dtype='int')
RintArray(plat, a) ==
    [shape |-> a.shape, data |-> [p \in DOMAIN a.data |-> CastInt(plat, a.data[p])]]

\* np.zeros_like(a)
ZerosLike(a) == [shape |-> a.shape, data |-> [p \in DOMAIN a.data |-> 0]]

\* a < n and a > n for an integer array a and a number n
Less(a, n) == [shape |-> a.shape, data |-> [p \in DOMAIN a.data |-> a.data[p] < n]]

Greater(a, n) == [shape |-> a.shape, data |-> [p \in DOMAIN a.data |-> a.data[p] > n]]

\* np.logical_or(a, b) and np.logical_not(a) (operands of one shape)
LogicalOr(a, b) ==
    [shape |-> a.shape, data |-> [p \in DOMAIN a.data |-> a.data[p] \/ b.data[p]]]

LogicalNot(a) == [shape |-> a.shape, data |-> [p \in DOMAIN a.data |-> ~a.data[p]]]

\* an index i along an axis of length n: in range (negative ones count from
\* the end) or an IndexError
IndexOk(i, n) == -n <= i /\ i < n

Wrap(i, n) == IF i < 0 THEN i + n ELSE i

\* a[a == v] = w
Replace(a, v, w) ==
    [shape |-> a.shape,
     data |-> [p \in DOMAIN a.data |-> IF a.data[p] = v THEN w ELSE a.data[p]]]

(* ------------------------------ the WCS -------------------------------- *)

\* A WCS is modelled by its reference pixel crpix (in half pixels): the sky
\* coordinate of pixel x is 2x - crpix.  Pixel origin 0 throughout.
\* mutant of PixToWorld: pixel origin 1 (all_pix2world(x, y, 1))
PixToWorldOrigin1(w, x, y) == <<2 * (x - 1) - w.crpix[1], 2 * (y - 1) - w.crpix[2]>>

PixToWorld(w, x, y) == <<2 * x - w.crpix[1], 2 * y - w.crpix[2]>>

WorldToPix(w, ra, dec) == <<Fin(ra + w.crpix[1]), Fin(dec + w.crpix[2])>>

(* ------------------------------ the script ----------------------------- *)

Init ==
    /\ pc = "open1"
    /\ im1 = Unset /\ im2 = Unset
    /\ w1 = Unset /\ w2 = Unset
    /\ xarray = Unset /\ yarray = Unset
    /\ ra_array = Unset /\ dec_array = Unset
    /\ newxarray = Unset /\ newyarray = Unset
    /\ newdata = Unset /\ boolean_array = Unset
    /\ fault = {}
    /\ outfile = Unset

\* the image files on disk: a data array and the reference pixel of the WCS
\* in the header
File1 ==
    { [data |-> [shape |-> <<h, w>>,
                 data |-> [p \in Pos(<<h, w>>) |->
                             Palette[((p[1] * w + p[2] + 1) % 4) + 1]]],
       wcs |-> [crpix |-> <<c, c>>]] :
      h \in 0 .. MaxDim, w \in 0 .. MaxDim, c \in {-1, 1} }

File2 ==
    UNION { { [data |-> d, wcs |-> [crpix |-> <<cx, cy>>]] :
              d \in FileData(<<h, w>>) } :
            h \in 1 .. MaxDim, w \in 1 .. MaxDim,
            cx \in -MaxShift .. MaxShift, cy \in -MaxShift .. MaxShift }

\* what the transform service may answer for a sky field of the given
\* shape: a finite pixel coordinate everywhere, or NaN or an infinity (in
\* both coordinates) at the first or at the last position
Answers(shape) ==
    { [p \in {} |-> 0] } \cup
    { [p \in {q} |-> v] :
        q \in Pos(shape) \cap {<<0, 0>>, <<shape[1] - 1, shape[2] - 1>>},
        v \in NonFinite }

\* line 26 and line 195: im1 = fits.open('N2280_B.fits'), w1 = wcs.WCS(...)
OpenIm1 ==
    /\ pc = "open1"
    /\ \E f \in File1 :
          /\ im1' = f.data
          /\ w1' = f.wcs
    /\ pc' = "meshgrid"
    /\ UNCHANGED <<im2, w2, xarray, yarray, ra_array, dec_array, newxarray,
                   newyarray, newdata, boolean_array, fault, outfile>>

\* lines 113-114: the coordinate arrays of im1
MakeGrid ==
    /\ pc = "meshgrid"
    /\ LET g == Meshgrid(Arange(im1.shape[2]), Arange(im1.shape[1]))
       IN  /\ xarray' = g[1]
           /\ yarray' = g[2]
    /\ pc' = "pix2world"
    /\ UNCHANGED <<im1, w1, im2, w2, ra_array, dec_array, newxarray,
                   newyarray, newdata, boolean_array, fault, outfile>>

\* line 216: ra_array, dec_array = w1.all_pix2world(xarray, yarray, 0)
Pix2World ==
    /\ pc = "pix2world"
    /\ ra_array' = [shape |-> xarray.shape,
                    data |-> [p \in DOMAIN xarray.data |->
                                PixToWorld(w1, xarray.data[p], yarray.data[p])[1]]]
    /\ dec_array' = [shape |-> xarray.shape,
                     data |-> [p \in DOMAIN xarray.data |->
                                 PixToWorld(w1, xarray.data[p], yarray.data[p])[2]]]
    /\ pc' = "open2"
    /\ UNCHANGED <<im1, w1, im2, w2, xarray, yarray, newxarray, newyarray,
                   newdata, boolean_array, fault, outfile>>

\* lines 227-230: im2 = fits.open('N2280_R.fits'), w2 = wcs.WCS(...)
OpenIm2 ==
    /\ pc = "open2"
    /\ \E f \in File2 :
          /\ im2' = f.data
          /\ w2' = f.wcs
    /\ pc' = "world2pix"
    /\ UNCHANGED <<im1, w1, xarray, yarray, ra_array, dec_array, newxarray,
                   newyarray, newdata, boolean_array, fault, outfile>>

\* line 236: newxarray, newyarray = w2.all_world2pix(ra_array, dec_array, 0)
\* fault records the positions where the answer is not finite
World2Pix ==
    /\ pc = "world2pix"
    /\ \E bad \in Answers(ra_array.shape) :
          /\ newxarray' =
                [shape |-> ra_array.shape,
                 data |-> [p \in DOMAIN ra_array.data |->
                             IF p \in DOMAIN bad THEN bad[p]
                             ELSE WorldToPix(w2, ra_array.data[p],
                                             dec_array.data[p])[1]]]
          /\ newyarray' =
                [shape |-> ra_array.shape,
                 data |-> [p \in DOMAIN ra_array.data |->
                             IF p \in DOMAIN bad THEN bad[p]
                             ELSE WorldToPix(w2, ra_array.data[p],
                                             dec_array.data[p])[2]]]
          /\ fault' = DOMAIN bad
    /\ pc' = "rint"
    /\ UNCHANGED <<im1, w1, im2, w2, xarray, yarray, ra_array, dec_array,
                   newdata, boolean_array, outfile>>

\* lines 246-247: round and convert to integers
RoundToInt ==
    /\ pc = "rint"
    /\ \E plat \in Platforms :
          /\ newxarray' = RintArray(plat, newxarray)
          /\ newyarray' = RintArray(plat, newyarray)
    /\ pc' = "zeros_like"
    /\ UNCHANGED <<im1, w1, im2, w2, xarray, yarray, ra_array, dec_array,
                   newdata, boolean_array, fault, outfile>>

\* line 266: newdata = np.zeros_like(im1[0].data)
MakeNewdata ==
    /\ pc = "zeros_like"
    /\ newdata' = ZerosLike(im1)
    /\ pc' = "mask"
    /\ UNCHANGED <<im1, w1, im2, w2, xarray, yarray, ra_array, dec_array,
                   newxarray, newyarray, boolean_array, fault, outfile>>

\* lines 274-279: the six things that make a pixel bad
Bad1(nx) == Less(nx, 0)

Bad2(ny) == Less(ny, 0)

Bad3(nx, nd) == Greater(nx, nd.shape[2] - 1)

Bad4(ny, nd) == Greater(ny, nd.shape[1] - 1)

\* mutant of Bad5: the height of im2 in place of its width
Bad5Height(nx, d2) == Greater(nx, d2.shape[1] - 1)

Bad5(nx, d2) == Greater(nx, d2.shape[2] - 1)

Bad6(ny, d2) == Greater(ny, d2.shape[1] - 1)

\* lines 283-291: the good pixels
GoodPixels(nx, ny, nd, d2) ==
    LogicalNot(
      LogicalOr(
        LogicalOr(
          LogicalOr(
            LogicalOr(LogicalOr(Bad1(nx), Bad2(ny)), Bad3(nx, nd)),
            Bad4(ny, nd)),
          Bad5(nx, d2)),
        Bad6(ny, d2)))

\* lines 274-291
MakeMask ==
    /\ pc = "mask"
    /\ boolean_array' = GoodPixels(newxarray, newyarray, newdata, im2)
    /\ pc' = "fill"
    /\ UNCHANGED <<im1, w1, im2, w2, xarray, yarray, ra_array, dec_array,
                   newxarray, newyarray, newdata, fault, outfile>>

\* the positions selected by a boolean array
Selected(b) == { p \in DOMAIN b.data : b.data[p] }

\* line 302-303 raises IndexError when the boolean index does not have the
\* shape of newdata or a selected coordinate is not an index of im2
FillRaises(nd, b, nx, ny, d2) ==
    \/ b.shape # nd.shape
    \/ \E p \in Selected(b) :
          \/ ~IndexOk(ny.data[p], d2.shape[1])
          \/ ~IndexOk(nx.data[p], d2.shape[2])

\* mutant of Filled: im2[0].data[newxarray[...], newyarray[...]]
FilledTransposed(nd, b, nx, ny, d2) ==
    [shape |-> nd.shape,
     data |-> [p \in DOMAIN nd.data |->
                 IF /\ p \in Selected(b)
                    /\ <<nx.data[p], ny.data[p]>> \in DOMAIN d2.data
                 THEN d2.data[<<nx.data[p], ny.data[p]>>]
                 ELSE nd.data[p]]]

\* the value of newdata after lines 302-303
Filled(nd, b, nx, ny, d2) ==
    [shape |-> nd.shape,
     data |-> [p \in DOMAIN nd.data |->
                 IF p \in Selected(b)
                 THEN d2.data[<<Wrap(ny.data[p], d2.shape[1]),
                                Wrap(nx.data[p], d2.shape[2])>>]
                 ELSE nd.data[p]]]

\* lines 302-303: newdata[boolean_array] = im2[0].data[newyarray[...], newxarray[...]]
Fill ==
    /\ pc = "fill"
    /\ IF FillRaises(newdata, boolean_array, newxarray, newyarray, im2)
       THEN /\ pc' = "error"
            /\ UNCHANGED newdata
       ELSE /\ pc' = "nan1"
            /\ newdata' = Filled(newdata, boolean_array, newxarray, newyarray, im2)
    /\ UNCHANGED <<im1, w1, im2, w2, xarray, yarray, ra_array, dec_array,
                   newxarray, newyarray, boolean_array, fault, outfile>>

\* mutant of ZeroToNan: im2[0].data[im2[0].data == 0] = np.nan as well
ZeroToNanInPlace ==
    /\ pc = "nan1"
    /\ newdata' = Replace(newdata, 0, nan)
    /\ im2' = Replace(im2, 0, nan)
    /\ pc' = "unnan"
    /\ UNCHANGED <<im1, w1, w2, xarray, yarray, ra_array, dec_array,
                   newxarray, newyarray, boolean_array, fault, outfile>>

\* line 310: newdata[newdata == 0] = np.nan
ZeroToNan ==
    /\ pc = "nan1"
    /\ newdata' = Replace(newdata, 0, nan)
    /\ pc' = "unnan"
    /\ UNCHANGED <<im1, w1, im2, w2, xarray, yarray, ra_array, dec_array,
                   newxarray, newyarray, boolean_array, fault, outfile>>

\* line 315: newdata[np.isnan(newdata)] = 0
NanToZero ==
    /\ pc = "unnan"
    /\ newdata' = Replace(newdata, nan, 0)
    /\ pc' = "nan2"
    /\ UNCHANGED <<im1, w1, im2, w2, xarray, yarray, ra_array, dec_array,
                   newxarray, newyarray, boolean_array, fault, outfile>>

\* mutant of ZeroToNanAgain: line 319 left out
ZeroToNanSkipped ==
    /\ pc = "nan2"
    /\ pc' = "writeto"
    /\ UNCHANGED <<im1, w1, im2, w2, xarray, yarray, ra_array, dec_array,
                   newxarray, newyarray, newdata, boolean_array, fault, outfile>>

\* line 319: newdata[newdata == 0] = np.nan
ZeroToNanAgain ==
    /\ pc = "nan2"
    /\ newdata' = Replace(newdata, 0, nan)
    /\ pc' = "writeto"
    /\ UNCHANGED <<im1, w1, im2, w2, xarray, yarray, ra_array, dec_array,
                   newxarray, newyarray, boolean_array, fault, outfile>>

\* lines 324-328: fits.writeto(..., data=newdata, clobber=True) and close
WriteTo ==
    /\ pc = "writeto"
    /\ outfile' = newdata
    /\ pc' = "done"
    /\ UNCHANGED <<im1, w1, im2, w2, xarray, yarray, ra_array, dec_array,
                   newxarray, newyarray, newdata, boolean_array, fault>>

Next ==
    \/ OpenIm1
    \/ MakeGrid
    \/ Pix2World
    \/ OpenIm2
    \/ World2Pix
    \/ RoundToInt
    \/ MakeNewdata
    \/ MakeMask
    \/ Fill
    \/ ZeroToNan
    \/ NanToZero
    \/ ZeroToNanAgain
    \/ WriteTo

Spec == Init /\ [][Next]_vars

(* ------------------------------ properties ----------------------------- *)

\* the statements after which the named arrays hold their final values
Rounded == {"zeros_like", "mask", "fill", "nan1", "unnan", "nan2", "writeto",
            "done", "error"}

Masked == {"fill", "nan1", "unnan", "nan2", "writeto", "done", "error"}

Final == {"writeto", "done"}

\* the rounded mapped coordinate of position p
MX(p) == newxarray.data[p]

MY(p) == newyarray.data[p]

\* (MX(p), MY(p)) is a position of the target raster
InTarget(p) ==
    /\ 0 <= MX(p) /\ MX(p) <= im2.shape[2] - 1
    /\ 0 <= MY(p) /\ MY(p) <= im2.shape[1] - 1

\* one of the six bound checks fails at p
OutOfBounds(p) ==
    \/ MX(p) < 0 \/ MY(p) < 0
    \/ MX(p) > newdata.shape[2] - 1 \/ MY(p) > newdata.shape[1] - 1
    \/ MX(p) > im2.shape[2] - 1 \/ MY(p) > im2.shape[1] - 1

\* C1: mask correctness.  A position whose rounded mapped coordinate fails
\* one of the six bound checks has a false mask and the missing sentinel in
\* the final output; a position with a true mask maps into the target
\* raster, and lines 302-303 raise no error.
C1_MaskCorrect ==
    /\ pc # "error"
    /\ pc \in Masked =>
          \A p \in Pos(im1.shape) :
             /\ OutOfBounds(p) => ~boolean_array.data[p]
             /\ boolean_array.data[p] => InTarget(p)
    /\ pc \in Final =>
          \A p \in Pos(im1.shape) : OutOfBounds(p) => newdata.data[p] = nan

\* C1 witness: the pipeline has finished; one position is out of bounds for
\* the target's width alone and holds the sentinel, another has a true mask
C1_Witness ==
    /\ pc = "done"
    /\ \E p \in Pos(im1.shape) :
          /\ MX(p) > im2.shape[2] - 1 /\ MX(p) <= newdata.shape[2] - 1
          /\ MY(p) >= 0 /\ MY(p) <= im2.shape[1] - 1
          /\ ~boolean_array.data[p]
          /\ newdata.data[p] = nan
    /\ \E p \in Pos(im1.shape) : boolean_array.data[p]

\* C2: the resampler's result.  In the final output a position with a true
\* mask and a non-zero target sample holds that sample; every other
\* position holds the missing sentinel.
C2_ResamplerResult ==
    pc \in Final =>
       \A p \in Pos(newdata.shape) :
          IF boolean_array.data[p] /\ im2.data[<<MY(p), MX(p)>>] # 0
          THEN newdata.data[p] = im2.data[<<MY(p), MX(p)>>]
          ELSE newdata.data[p] = nan

\* C2 witness: a finished run with a copied sample, a zero sample turned
\* into the sentinel and a position with a false mask
C2_Witness ==
    /\ pc = "done"
    /\ \E p \in Pos(newdata.shape) :
          /\ boolean_array.data[p]
          /\ im2.data[<<MY(p), MX(p)>>] \notin {0, nan}
          /\ newdata.data[p] = im2.data[<<MY(p), MX(p)>>]
    /\ \E p \in Pos(newdata.shape) :
          /\ boolean_array.data[p]
          /\ im2.data[<<MY(p), MX(p)>>] = 0
          /\ newdata.data[p] = nan
    /\ \E p \in Pos(newdata.shape) : ~boolean_array.data[p]

\* C3: sentinel consistency.  Every element of the final output is the
\* missing sentinel or the target's sample at that element's mapped
\* location; in particular no zero is left.
C3_SentinelConsistent ==
    pc \in Final =>
       \A p \in Pos(newdata.shape) :
          \/ newdata.data[p] = nan
          \/ /\ newdata.data[p] # 0
             /\ InTarget(p)
             /\ newdata.data[p] = im2.data[<<MY(p), MX(p)>>]

\* C3 witness: a finished run whose output holds both a sentinel and a
\* copied sample, the target holding a different sample elsewhere
C3_Witness ==
    /\ pc = "done"
    /\ \E p \in Pos(newdata.shape) : newdata.data[p] = nan
    /\ \E p \in Pos(newdata.shape) :
          /\ newdata.data[p] # nan
          /\ \E q \in Pos(im2.shape) : im2.data[q] \notin {0, nan, newdata.data[p]}

\* C4: the grid generator.  For a positive height H and width W, xarray and
\* yarray have shape (H, W), xarray[r, c] = c and yarray[r, c] = r.
C4_GridCorrect ==
    (xarray # Unset /\ im1.shape[1] > 0 /\ im1.shape[2] > 0) =>
       /\ xarray.shape = im1.shape
       /\ yarray.shape = im1.shape
       /\ DOMAIN xarray.data = Pos(im1.shape)
       /\ DOMAIN yarray.data = Pos(im1.shape)
       /\ \A r \in 0 .. im1.shape[1] - 1, c \in 0 .. im1.shape[2] - 1 :
             /\ xarray.data[<<r, c>>] = c
             /\ yarray.data[<<r, c>>] = r

\* C4 witness: the grid of an image with more columns than rows
C4_Witness ==
    /\ pc = "pix2world"
    /\ im1.shape[1] > 0
    /\ im1.shape[2] > im1.shape[1]
    /\ xarray.data[<<0, im1.shape[2] - 1>>] = im1.shape[2] - 1

\* the precondition of C5: identical transforms, finite answers
IdentityPair == w1 # Unset /\ w1 = w2 /\ fault = {}

\* the samples of im2 avoid the given values
Avoids(vals) == \A q \in Pos(im2.shape) : im2.data[q] \notin vals

\* C5 as stated: with identical transforms the rounded mapped field is the
\* coordinate grid; with a target of the source's shape and no zero sample
\* every mask entry is true and the output equals the target, with no
\* sentinel position.
C5_IdentityAsStated ==
    IdentityPair =>
       /\ pc \in Rounded =>
             \A p \in Pos(im1.shape) : MX(p) = p[2] /\ MY(p) = p[1]
       /\ (pc \in Masked /\ im2.shape = im1.shape /\ Avoids({0})) =>
             \A p \in Pos(im1.shape) : boolean_array.data[p]
       /\ (pc \in Final /\ im2.shape = im1.shape /\ Avoids({0})) =>
             /\ newdata = im2
             /\ \A p \in Pos(im1.shape) : newdata.data[p] # nan

\* C5 as amended: the same, for a target with no zero and no NaN sample.
C5_IdentityRoundTrip ==
    IdentityPair =>
       /\ pc \in Rounded =>
             \A p \in Pos(im1.shape) : MX(p) = p[2] /\ MY(p) = p[1]
       /\ (pc \in Masked /\ im2.shape = im1.shape /\ Avoids({0})) =>
             \A p \in Pos(im1.shape) : boolean_array.data[p]
       /\ (pc \in Final /\ im2.shape = im1.shape /\ Avoids({0, nan})) =>
             /\ newdata = im2
             /\ \A p \in Pos(im1.shape) : newdata.data[p] # nan

\* C5 witness: a finished identity run on the largest shape, the target
\* holding the value 5 everywhere
C5_Witness ==
    /\ pc = "done"
    /\ IdentityPair
    /\ im1.shape = <<MaxDim, MaxDim>>
    /\ im2.shape = im1.shape
    /\ \A q \in Pos(im2.shape) : im2.data[q] = 5
    /\ outfile = im2

C7_InvalidDegrades ==
    /\ pc # "error"
    /\ \A p \in fault :
          /\ pc \in Masked => ~boolean_array.data[p]
          /\ pc \in Final => newdata.data[p] = nan

\* array a, once it exists, has the shape and the positions of im1[0].data
ShapeOfSource(a) ==
    a.shape # Unset.shape =>
       (a.shape = im1.shape /\ DOMAIN a.data = Pos(im1.shape))

\* C8: the shape invariant.  Every derived array that exists (grid, sky
\* field, mapped field, mask, output) has the shape and the positions of
\* the source raster, whatever the target's shape.
C8_ShapeInvariant ==
    /\ ShapeOfSource(xarray) /\ ShapeOfSource(yarray)
    /\ ShapeOfSource(ra_array) /\ ShapeOfSource(dec_array)
    /\ ShapeOfSource(newxarray) /\ ShapeOfSource(newyarray)
    /\ ShapeOfSource(boolean_array)
    /\ ShapeOfSource(newdata) /\ ShapeOfSource(outfile)

\* C8 witness: a finished run whose target has another shape than the source
C8_Witness ==
    /\ pc = "done"
    /\ im1.shape[1] > 0 /\ im1.shape[2] > 0
    /\ im2.shape[1] # im1.shape[1] /\ im2.shape[2] # im1.shape[2]
    /\ outfile.shape = im1.shape

\* C9: the inputs are not mutated.  Once loaded, the samples of the source
\* raster and of the target raster never change.
C9_InputsNotMutated ==
    [][ /\ im1 # Unset => im1' = im1
        /\ im2 # Unset => im2' = im2 ]_vars

\* C9 witness: a finished run that wrote target samples and sentinels to
\* the output while the target still holds a zero
C9_Witness ==
    /\ pc = "done"
    /\ \E p \in Pos(outfile.shape) : outfile.data[p] = nan
    /\ \E p \in Pos(outfile.shape) : outfile.data[p] # nan
    /\ \E q \in Pos(im2.shape) : im2.data[q] = 0

\* C10: the destination-bound checks are redundant.  The mask is true
\* exactly at the positions whose rounded mapped coordinate is a position
\* of the target raster, also for a target larger than the source.
C10_DestinationChecksRedundant ==
    pc \in Masked =>
       \A p \in Pos(im1.shape) : boolean_array.data[p] <=> InTarget(p)
====
